---- MODULE Spec2Model ----
(***************************************************************************)
(* Model of the window monitor in src/main.rs: the WindowCache (a 50 ms    *)
(* time-based cache over EnumWindows), the classifier predicates           *)
(* is_target_window / should_skip_window, and the polling loop of          *)
(* monitor_windows, together with the part of the desktop the program      *)
(* reads (window list, foreground window, clock).                          *)
(*                                                                         *)
(* Text is a sequence of characters; a character is a one-element token    *)
(* ("a", "A", " "), with "SIGMA", "sigma" and "fsigma" standing for the    *)
(* Greek capital sigma, small sigma and small final sigma.                 *)
(***************************************************************************)
EXTENDS Integers, Sequences, FiniteSets, TLC

\* ------------------------------------------------------------------ bounds

\* Loop iterations of monitor_windows explored in one run.
MaxTicks == 3

\* Latest clock value (ms) at which the cache harness still acts.
MaxTime == 110

\* ------------------------------------------------------- program constants

\* WindowCache::new: cache_duration = Duration::from_millis(50).
cache_duration == 50

\* WindowCache::new: last_update = Instant::now() - Duration::from_secs(1).
InitialBackdateMs == 1000

\* Variant of PollIntervalMs: a sleep shorter than the cache duration.
PollIntervalShort == cache_duration - 10

\* monitor_windows: thread::sleep(Duration::from_millis(100)).
PollIntervalMs == 100

\* ------------------------------------------------------------------- text

UpperChars ==
  << "A", "B", "C", "D", "E", "F", "G", "H", "I", "J", "K", "L", "M",
     "N", "O", "P", "Q", "R", "S", "T", "U", "V", "W", "X", "Y", "Z" >>

LowerChars ==
  << "a", "b", "c", "d", "e", "f", "g", "h", "i", "j", "k", "l", "m",
     "n", "o", "p", "q", "r", "s", "t", "u", "v", "w", "x", "y", "z" >>

Range(s) == { s[i] : i \in 1..Len(s) }

\* Unicode property Cased, on the characters of the model.
Cased(c) == c \in Range(UpperChars) \cup Range(LowerChars)
                    \cup {"SIGMA", "sigma", "fsigma"}

\* Unicode property Case_Ignorable, on the characters of the model.
CaseIgnorable(c) == c \in {"'"}

\* The simple lowercase mappings: each capital letter to its small letter.
LowercaseTable ==
  [ c \in Range(UpperChars) |->
      LowerChars[CHOOSE i \in 1..Len(UpperChars) : UpperChars[i] = c] ]

\* char::to_lowercase for a character whose mapping needs no context.
ToLowerChar(c) ==
  IF c \in DOMAIN LowercaseTable THEN LowercaseTable[c] ELSE c

\* The first character of s that is not Case_Ignorable is Cased
\* (case_ignorable_then_cased of str::to_lowercase).
RECURSIVE CaseIgnorableThenCased(_)
CaseIgnorableThenCased(s) ==
  IF s = << >> THEN FALSE
  ELSE IF CaseIgnorable(Head(s)) THEN CaseIgnorableThenCased(Tail(s))
  ELSE Cased(Head(s))

Reverse(s) == [ i \in 1..Len(s) |-> s[Len(s) + 1 - i] ]

\* str::to_lowercase maps capital sigma to the final form at the end of a
\* word (Final_Sigma of SpecialCasing.txt) and to small sigma elsewhere.
MapUppercaseSigma(s, i) ==
  IF CaseIgnorableThenCased(Reverse(SubSeq(s, 1, i - 1)))
       /\ ~CaseIgnorableThenCased(SubSeq(s, i + 1, Len(s)))
    THEN "fsigma"
    ELSE "sigma"

\* str::to_lowercase.
ToLowercase(s) ==
  [ i \in 1..Len(s) |->
      IF s[i] = "SIGMA" THEN MapUppercaseSigma(s, i) ELSE ToLowerChar(s[i]) ]

\* str::contains with a string pattern.
Contains(hay, needle) ==
  \E i \in 0..(Len(hay) - Len(needle)) :
     SubSeq(hay, i + 1, i + Len(needle)) = needle

\* str::is_empty.
IsEmpty(s) == Len(s) = 0

\* ------------------------------------------------------------- classifier

\* HashMap<String, String>: each configured keyword mapped to its lowercase
\* form (monitor_windows, the two .map(|k| (k.clone(), k.to_lowercase()))).
BuildKeywordCache(keywords) ==
  [ k \in Range(keywords) |-> ToLowercase(k) ]

\* Variant of AnyKeywordMatches: a keyword missing from the table is passed
\* over as a keyword that does not match.
RECURSIVE AnyKeywordMatchesSkipMissing(_, _, _)
AnyKeywordMatchesSkipMissing(title_lower, keywords, cache) ==
  IF keywords = << >> THEN "false"
  ELSE IF Head(keywords) \in DOMAIN cache
            /\ Contains(title_lower, cache[Head(keywords)]) THEN "true"
  ELSE AnyKeywordMatchesSkipMissing(title_lower, Tail(keywords), cache)

\* keywords.iter().any(|keyword| title_lower.contains(cache.get(keyword).unwrap()))
\* any() goes through the keywords in order and stops at the first match;
\* unwrap() on a keyword missing from the table panics.
\* The result is "true", "false" or "panic".
RECURSIVE AnyKeywordMatches(_, _, _)
AnyKeywordMatches(title_lower, keywords, cache) ==
  IF keywords = << >> THEN "false"
  ELSE IF Head(keywords) \notin DOMAIN cache THEN "panic"
  ELSE IF Contains(title_lower, cache[Head(keywords)]) THEN "true"
  ELSE AnyKeywordMatches(title_lower, Tail(keywords), cache)

\* fn is_target_window.
IsTargetWindow(window, target_keywords, keyword_cache) ==
  AnyKeywordMatches(ToLowercase(window.title), target_keywords, keyword_cache)

ProgramManager ==
  << "P", "r", "o", "g", "r", "a", "m", " ", "M", "a", "n", "a", "g", "e", "r" >>

Desktop == << "D", "e", "s", "k", "t", "o", "p" >>

Shell_TrayWnd ==
  << "S", "h", "e", "l", "l", "_", "T", "r", "a", "y", "W", "n", "d" >>

\* Variant of ShouldSkipWindow: the "Desktop" test is left out.
ShouldSkipWindowNoDesktop(window, ignored_keywords, ignored_cache) ==
  IF \/ IsEmpty(window.title)
     \/ Contains(window.title, ProgramManager)
     \/ Contains(window.class_name, Shell_TrayWnd)
    THEN "true"
    ELSE AnyKeywordMatches(ToLowercase(window.title), ignored_keywords,
                           ignored_cache)

\* fn should_skip_window.
ShouldSkipWindow(window, ignored_keywords, ignored_cache) ==
  IF \/ IsEmpty(window.title)
     \/ Contains(window.title, ProgramManager)
     \/ Contains(window.title, Desktop)
     \/ Contains(window.class_name, Shell_TrayWnd)
    THEN "true"
    ELSE AnyKeywordMatches(ToLowercase(window.title), ignored_keywords,
                           ignored_cache)

\* ---------------------------------------------------------- configuration

\* main: target_keywords = vec!["Trae"].
target_keywords == << << "T", "r", "a", "e" >> >>

\* main: ignored_keywords = vec!["WhatsApp"].
ignored_keywords == << << "W", "h", "a", "t", "s", "A", "p", "p" >> >>

\* Variant of keyword_cache: the table is keyed by the lowercase keywords.
KeywordCacheLowercaseKeys ==
  [ k \in { ToLowercase(x) : x \in Range(target_keywords) } |-> k ]

\* monitor_windows: keyword_cache.
keyword_cache == BuildKeywordCache(target_keywords)

\* monitor_windows: ignored_cache.
ignored_cache == BuildKeywordCache(ignored_keywords)

\* ---------------------------------------------------------------- desktop

\* HWND(null): what GetForegroundWindow returns when no window has focus.
NullHwnd == 0

\* The windows of the desktop session, by handle, in the order EnumWindows
\* visits them. has_parent is GetParent(hwnd) != null.
OsWindows ==
  << [ title |-> << "T", "r", "a", "e", " ", "i", "d", "e" >>,
       class_name |-> << "C", "h", "r", "o", "m", "e" >>, has_parent |-> FALSE ],
     [ title |-> << "W", "h", "a", "t", "s", "A", "p", "p" >>,
       class_name |-> << "A", "p", "p" >>, has_parent |-> FALSE ],
     [ title |-> << "N", "o", "t", "e", "p", "a", "d" >>,
       class_name |-> << "N", "o", "t", "e", "p", "a", "d" >>, has_parent |-> FALSE ],
     [ title |-> ProgramManager,
       class_name |-> << "P", "r", "o", "g", "m", "a", "n" >>, has_parent |-> FALSE ],
     [ title |-> << "T", "R", "A", "E", " ", "w", "h", "a", "t", "s", "a", "p", "p" >>,
       class_name |-> << "C", "h", "r", "o", "m", "e" >>, has_parent |-> FALSE ],
     [ title |-> << >>,
       class_name |-> Shell_TrayWnd, has_parent |-> FALSE ],
     [ title |-> << "F", "i", "n", "d" >>,
       class_name |-> << "D", "i", "a", "l", "o", "g" >>, has_parent |-> TRUE ],
     [ title |-> << "C", "a", "l", "c" >>,
       class_name |-> << "C", "a", "l", "c" >>, has_parent |-> FALSE ] >>

Hwnds == 1..Len(OsWindows)

\* Windows the environment shows and hides while the program runs.
Transient == {3, 8}

\* What GetForegroundWindow returns in the runs explored: no window, the
\* target, an ordinary window, the target that is also ignored, and a child
\* window (which no snapshot holds).
Focusable == {NullHwnd, 1, 3, 5, 7}

VARIABLES
  now,                 \* the monotonic clock (Instant::now()), in ms
  visible,             \* handles for which IsWindowVisible is true
  foreground,          \* what GetForegroundWindow returns
  window_cache,        \* monitor_windows: window_cache (a WindowCache)
  last_active_window,  \* monitor_windows: << >> is None, <<h>> is Some(h)
  pc,                  \* "running", "exited" (main returned Err), "panicked"
  call,                \* record of the latest WindowCache::get_windows call
  tick,                \* record of the latest iteration of the loop
  probe                \* a classifier call made on its own: inputs, results

vars ==
  << now, visible, foreground, window_cache, last_active_window, pc, call, tick,
     probe >>

\* No classifier call is made on its own.
NoProbe == [ title |-> << >>, keywords |-> << >>, is_target |-> "none" ]

\* ------------------------------------------------------------ enumeration

\* Variant of EnumWindowsProc: the title length is not tested.
EnumWindowsProcNoTitleCheck(windows, hwnd, vis) ==
  IF hwnd \in vis /\ ~OsWindows[hwnd].has_parent
    THEN Append(windows, [ hwnd |-> hwnd,
                           title |-> OsWindows[hwnd].title,
                           class_name |-> OsWindows[hwnd].class_name ])
    ELSE windows

\* enum_windows_proc: pushes a WindowInfo for a visible window without
\* parent whose GetWindowTextW length is positive.
EnumWindowsProc(windows, hwnd, vis) ==
  IF hwnd \in vis /\ ~OsWindows[hwnd].has_parent
    THEN IF Len(OsWindows[hwnd].title) > 0
           THEN Append(windows, [ hwnd |-> hwnd,
                                  title |-> OsWindows[hwnd].title,
                                  class_name |-> OsWindows[hwnd].class_name ])
           ELSE windows
    ELSE windows

RECURSIVE EnumWindows(_, _, _)
EnumWindows(windows, hwnd, vis) ==
  IF hwnd > Len(OsWindows) THEN windows
  ELSE EnumWindows(EnumWindowsProc(windows, hwnd, vis), hwnd + 1, vis)

\* get_all_windows_uncached, when EnumWindows reports success.
GetAllWindowsUncached(vis) == EnumWindows(<< >>, 1, vis)

\* ------------------------------------------------------------ WindowCache

\* Variant of WindowCacheNew: last_update is not moved back.
WindowCacheNewNoBackdate(t) ==
  [ windows |-> << >>, last_update |-> t, cache_duration |-> cache_duration ]

\* WindowCache::new at clock value t.
WindowCacheNew(t) ==
  [ windows |-> << >>,
    last_update |-> t - InitialBackdateMs,
    cache_duration |-> cache_duration ]

\* self.last_update.elapsed() at clock value t.
Elapsed(cache, t) == t - cache.last_update

\* Variant of Expired: >= in place of >.
ExpiredAtBoundary(cache, t) == Elapsed(cache, t) >= cache.cache_duration

\* The condition of get_windows: self.last_update.elapsed() > self.cache_duration.
Expired(cache, t) == Elapsed(cache, t) > cache.cache_duration

\* Variant of GetWindows: last_update is set before the enumeration, so a
\* failing enumeration leaves the new timestamp behind.
GetWindowsStampFirst(cache, t, enum_ok, d, vis) ==
  IF Expired(cache, t)
    THEN IF enum_ok
           THEN [ cache |-> [ cache EXCEPT !.windows = GetAllWindowsUncached(vis),
                                           !.last_update = t ],
                  enumerated |-> TRUE, result |-> "Ok",
                  value |-> GetAllWindowsUncached(vis), end |-> t + d ]
           ELSE [ cache |-> [ cache EXCEPT !.last_update = t ],
                  enumerated |-> TRUE, result |-> "Err",
                  value |-> << >>, end |-> t + d ]
    ELSE [ cache |-> cache, enumerated |-> FALSE, result |-> "Ok",
           value |-> cache.windows, end |-> t ]

\* WindowCache::get_windows called at clock value t. enum_ok is whether
\* EnumWindows reports success, d the time the enumeration takes, vis the
\* visible windows it sees. With an expired cache and a failing enumeration
\* the ? operator returns the error before either field is assigned.
GetWindows(cache, t, enum_ok, d, vis) ==
  IF Expired(cache, t)
    THEN IF enum_ok
           THEN [ cache |-> [ cache EXCEPT !.windows = GetAllWindowsUncached(vis),
                                           !.last_update = t + d ],
                  enumerated |-> TRUE, result |-> "Ok",
                  value |-> GetAllWindowsUncached(vis), end |-> t + d ]
           ELSE [ cache |-> cache, enumerated |-> TRUE, result |-> "Err",
                  value |-> << >>, end |-> t + d ]
    ELSE [ cache |-> cache, enumerated |-> FALSE, result |-> "Ok",
           value |-> cache.windows, end |-> t ]

\* What is recorded of a get_windows call: its number, the clock when it was
\* made, the elapsed() it read, whether it called get_all_windows_uncached,
\* and what it returned.
CallRecord(n, t, cache, got) ==
  [ n |-> n, at |-> t, elapsed |-> Elapsed(cache, t),
    enumerated |-> got.enumerated, result |-> got.result, value |-> got.value ]

\* Times an enumeration may take, in ms.
EnumDurations == {0, 3}

\* ---------------------------------------------------------------- actuator

\* fn minimize_window: the value of ShowWindow is dropped (let _ =) and
\* Ok(()) is returned whatever the OS did. show_ok is whether the OS call
\* succeeded.
MinimizeWindow(hwnd, show_ok) == "Ok"

\* ------------------------------------------------------------ control loop

\* Variant of FocusChanged: every iteration is taken for a focus change.
FocusChangedAlways(last_active, current_active) == TRUE

\* Variant of FocusChanged: None is taken for no change.
FocusChangedUnlessNone(last_active, current_active) ==
  last_active # << >> /\ last_active # << current_active >>

\* last_active_window != Some(current_active).
FocusChanged(last_active, current_active) == last_active # << current_active >>

\* Variant of FindActive: falls back to the first record.
FindActiveOrFirst(windows, current_active) ==
  IF \E i \in 1..Len(windows) : windows[i].hwnd = current_active
    THEN CHOOSE i \in 1..Len(windows) :
           /\ windows[i].hwnd = current_active
           /\ \A j \in 1..(i - 1) : windows[j].hwnd # current_active
    ELSE IF Len(windows) > 0 THEN 1 ELSE 0

\* windows.iter().find(|w| w.hwnd == current_active): the index of the first
\* record with that handle, 0 for None.
FindActive(windows, current_active) ==
  IF \E i \in 1..Len(windows) : windows[i].hwnd = current_active
    THEN CHOOSE i \in 1..Len(windows) :
           /\ windows[i].hwnd = current_active
           /\ \A j \in 1..(i - 1) : windows[j].hwnd # current_active
    ELSE 0

\* Variant of TargetDetected: a focused window that should_skip_window
\* rejects does not count as a target.
TargetDetectedUnlessSkipped(active_window) ==
  IF ShouldSkipWindow(active_window, ignored_keywords, ignored_cache) = "true"
    THEN "false"
    ELSE IsTargetWindow(active_window, target_keywords, keyword_cache)

\* The condition on the focused window:
\* if is_target_window(active_window, &target_keywords, &keyword_cache).
TargetDetected(active_window) ==
  IsTargetWindow(active_window, target_keywords, keyword_cache)

\* Variant of KeepForMinimize: should_skip_window is not consulted.
KeepForMinimizeNoSkip(window, current_active) ==
  IF window.hwnd = current_active THEN "false"
  ELSE LET t == IsTargetWindow(window, target_keywords, keyword_cache) IN
    IF t = "panic" THEN "panic"
    ELSE IF t = "true" THEN "false" ELSE "true"

\* The closure of the filter: "true" keeps the window, "panic" is an unwrap
\* of a missing keyword. && evaluates left to right and stops early.
KeepForMinimize(window, current_active) ==
  IF window.hwnd = current_active THEN "false"
  ELSE LET t == IsTargetWindow(window, target_keywords, keyword_cache) IN
    IF t = "panic" THEN "panic"
    ELSE IF t = "true" THEN "false"
    ELSE LET s == ShouldSkipWindow(window, ignored_keywords, ignored_cache) IN
      IF s = "panic" THEN "panic"
      ELSE IF s = "true" THEN "false" ELSE "true"

\* Variant of WindowsToMinimize: only the first record the filter keeps.
RECURSIVE FirstToMinimize(_, _)
FirstToMinimize(windows, current_active) ==
  IF windows = << >> THEN << >>
  ELSE IF KeepForMinimize(Head(windows), current_active) = "true"
    THEN << Head(windows) >>
    ELSE FirstToMinimize(Tail(windows), current_active)

\* windows_to_minimize: the records of the snapshot the filter keeps, in
\* snapshot order.
RECURSIVE WindowsToMinimize(_, _)
WindowsToMinimize(windows, current_active) ==
  IF windows = << >> THEN << >>
  ELSE IF KeepForMinimize(Head(windows), current_active) = "true"
    THEN << Head(windows) >> \o WindowsToMinimize(Tail(windows), current_active)
    ELSE WindowsToMinimize(Tail(windows), current_active)

FilterPanics(windows, current_active) ==
  \E i \in 1..Len(windows) : KeepForMinimize(windows[i], current_active) = "panic"

\* Variant of MinimizeLoop: the loop is left at the first window on which
\* the OS call fails.
RECURSIVE MinimizeLoopStopOnFailure(_, _, _)
MinimizeLoopStopOnFailure(to_minimize, os_failed, acc) ==
  IF to_minimize = << >> THEN acc
  ELSE LET window == Head(to_minimize)
           next == [ attempted |-> Append(acc.attempted, window.hwnd),
                     errors |-> acc.errors,
                     minimized_count |-> acc.minimized_count + 1 ]
       IN IF window.hwnd \in os_failed
            THEN [ next EXCEPT !.errors = acc.errors + 1,
                               !.minimized_count = acc.minimized_count ]
            ELSE MinimizeLoopStopOnFailure(Tail(to_minimize), os_failed, next)

\* The for loop over windows_to_minimize. os_failed are the handles on which
\* the OS call fails. acc collects the handles passed to minimize_window,
\* the Err branches taken and minimized_count.
RECURSIVE MinimizeLoop(_, _, _)
MinimizeLoop(to_minimize, os_failed, acc) ==
  IF to_minimize = << >> THEN acc
  ELSE LET window == Head(to_minimize)
           r == MinimizeWindow(window.hwnd, window.hwnd \notin os_failed)
       IN MinimizeLoop(Tail(to_minimize), os_failed,
            [ attempted |-> Append(acc.attempted, window.hwnd),
              errors |-> IF r = "Err" THEN acc.errors + 1 ELSE acc.errors,
              minimized_count |-> IF r = "Err" THEN acc.minimized_count
                                  ELSE acc.minimized_count + 1 ])

NoMinimize == [ attempted |-> << >>, errors |-> 0, minimized_count |-> 0 ]

\* The record of an iteration that has not looked at any window.
IdleTick(n, current_active, changed) ==
  [ n |-> n, current |-> current_active, changed |-> changed,
    get_windows |-> FALSE, enum_failed |-> FALSE, snapshot |-> << >>,
    found |-> FALSE, classified |-> FALSE, target |-> FALSE,
    attempted |-> << >>, os_failed |-> {}, errors |-> 0,
    minimized_count |-> 0 ]

\* ------------------------------------------------------------------ state

\* The state when monitor_windows enters its loop: the keyword tables are
\* built, last_active_window is None and the cache has just been made.
Init ==
  /\ now = 0
  /\ visible = Hwnds
  /\ foreground \in Focusable
  /\ window_cache = WindowCacheNew(0)
  /\ last_active_window = << >>
  /\ pc = "running"
  /\ call = [ n |-> 0, at |-> 0, elapsed |-> 0, enumerated |-> FALSE,
              result |-> "Ok", value |-> << >> ]
  /\ probe = NoProbe
  /\ tick = IdleTick(0, NullHwnd, FALSE)

\* --------------------------------------------------------- the environment

\* The user or another program gives a window the focus.
OsSetForeground ==
  /\ pc = "running"
  /\ \E h \in (Focusable \cap ({NullHwnd} \cup visible)) \ {foreground} :
       foreground' = h
  /\ UNCHANGED << now, visible, window_cache, last_active_window, pc, call, tick, probe >>

\* A hidden window is shown.
OsShow ==
  /\ pc = "running"
  /\ \E h \in Transient \ visible : visible' = visible \cup {h}
  /\ UNCHANGED << now, foreground, window_cache, last_active_window, pc, call, tick, probe >>

\* A window that does not have the focus is hidden or closed.
OsHide ==
  /\ pc = "running"
  /\ \E h \in (Transient \cap visible) \ {foreground} : visible' = visible \ {h}
  /\ UNCHANGED << now, foreground, window_cache, last_active_window, pc, call, tick, probe >>

\* ------------------------------------------------------------- the program

\* One iteration of the loop of monitor_windows, from GetForegroundWindow to
\* the end of thread::sleep. A failing get_windows leaves monitor_windows
\* through ?, and main returns the error: the process ends.
LoopIteration ==
  /\ pc = "running"
  /\ tick.n < MaxTicks
  /\ UNCHANGED << visible, foreground, probe >>
  /\ \E enum_ok \in BOOLEAN, d \in EnumDurations :
       LET current_active == foreground
           n == tick.n + 1
           idle == IdleTick(n, current_active, TRUE)
       IN
       IF ~FocusChanged(last_active_window, current_active)
         THEN /\ tick' = IdleTick(n, current_active, FALSE)
              /\ now' = now + PollIntervalMs
              /\ UNCHANGED << window_cache, last_active_window, pc, call >>
         ELSE
           LET got == GetWindows(window_cache, now, enum_ok, d, visible)
               windows == got.value
               idx == FindActive(windows, current_active)
               seen == [ idle EXCEPT !.get_windows = TRUE, !.snapshot = windows ]
           IN
           /\ last_active_window' = << current_active >>
           /\ call' = CallRecord(call.n + 1, now, window_cache, got)
           /\ window_cache' = got.cache
           /\ IF got.result = "Err"
                THEN /\ pc' = "exited"
                     /\ now' = got.end
                     /\ tick' = [ idle EXCEPT !.get_windows = TRUE,
                                              !.enum_failed = TRUE ]
              ELSE IF idx = 0
                THEN /\ pc' = pc
                     /\ now' = got.end + PollIntervalMs
                     /\ tick' = seen
              ELSE
                LET active_window == windows[idx]
                    t == TargetDetected(active_window)
                    found == [ seen EXCEPT !.found = TRUE, !.classified = TRUE ]
                IN
                IF t = "panic" \/ (t = "true" /\ FilterPanics(windows, current_active))
                  THEN /\ pc' = "panicked"
                       /\ now' = got.end
                       /\ tick' = found
                ELSE IF t = "false"
                  THEN /\ pc' = pc
                       /\ now' = got.end + PollIntervalMs
                       /\ tick' = found
                ELSE
                  LET to_minimize == WindowsToMinimize(windows, current_active) IN
                  \E os_failed \in SUBSET { to_minimize[i].hwnd :
                                              i \in 1..Len(to_minimize) } :
                    LET done == MinimizeLoop(to_minimize, os_failed, NoMinimize) IN
                    /\ pc' = pc
                    /\ now' = got.end + PollIntervalMs
                    /\ tick' = [ found EXCEPT !.target = TRUE,
                                   !.attempted = done.attempted,
                                   !.os_failed = os_failed,
                                   !.errors = done.errors,
                                   !.minimized_count = done.minimized_count ]

Next == LoopIteration \/ OsSetForeground \/ OsShow \/ OsHide

\* main running monitor_windows on the desktop.
Spec == Init /\ [][Next]_vars

\* ------------------------------------------------ the cache, called freely

\* get_windows calls made by the cache harness in one run.
MaxCalls == 3

\* Steps by which the clock advances between calls, in ms.
Delays == {25, 26}

\* A caller invokes WindowCache::get_windows.
CacheCall ==
  /\ call.n < MaxCalls
  /\ \E enum_ok \in BOOLEAN, d \in EnumDurations :
       LET got == GetWindows(window_cache, now, enum_ok, d, visible) IN
       /\ got.end <= MaxTime
       /\ window_cache' = got.cache
       /\ call' = CallRecord(call.n + 1, now, window_cache, got)
       /\ now' = got.end
  /\ UNCHANGED << visible, foreground, last_active_window, pc, tick, probe >>

\* Time passes.
Advance ==
  /\ \E d \in Delays : now + d <= MaxTime /\ now' = now + d
  /\ UNCHANGED << visible, foreground, window_cache, last_active_window, pc,
                  call, tick, probe >>

NextCache == CacheCall \/ Advance \/ OsShow \/ OsHide

InitCache == Init /\ foreground = NullHwnd

\* A WindowCache made at time 0 and then called at any times.
SpecCache == InitCache /\ [][NextCache]_vars

\* --------------------------------------------- the classifier, on its own

\* Longest title given to the classifier.
MaxTitleLen == 3

\* Characters of the titles given to the classifier.
ProbeChars == {"a", "A", "b", "SIGMA", "sigma"}

\* Titles given to the classifier: every text of at most MaxTitleLen
\* characters.
ProbeTitles ==
  UNION { [ 1..n -> ProbeChars ] : n \in 0..MaxTitleLen }

\* Keywords given to the classifier.
ProbeKeywords ==
  { << "a" >>, << "A" >>, << "A", "b" >>, << "sigma" >>, << "SIGMA" >>,
    << "a", "SIGMA" >> }

\* Keyword lists given to the classifier: none, one or two keywords.
ProbeKeywordLists ==
  { << >> } \cup { << k >> : k \in ProbeKeywords }
            \cup { << k1, k2 >> : k1 \in ProbeKeywords, k2 \in ProbeKeywords }

\* A title and a keyword list are chosen; nothing has been called yet.
InitClassify ==
  /\ now = 0
  /\ visible = Hwnds
  /\ foreground = NullHwnd
  /\ window_cache = WindowCacheNew(0)
  /\ last_active_window = << >>
  /\ pc = "running"
  /\ call = [ n |-> 0, at |-> 0, elapsed |-> 0, enumerated |-> FALSE,
              result |-> "Ok", value |-> << >> ]
  /\ tick = IdleTick(0, NullHwnd, FALSE)
  /\ probe \in [ title : ProbeTitles, keywords : ProbeKeywordLists,
                  is_target : {"none"} ]

\* is_target_window is called with the keyword list and the table built
\* from that list, as monitor_windows builds it.
CallIsTarget ==
  /\ probe.is_target = "none"
  /\ probe' = [ probe EXCEPT !.is_target =
                  IsTargetWindow([ hwnd |-> 1, title |-> probe.title,
                                   class_name |-> << >> ],
                                 probe.keywords,
                                 BuildKeywordCache(probe.keywords)) ]
  /\ UNCHANGED << now, visible, foreground, window_cache, last_active_window,
                  pc, call, tick >>

NextClassify == CallIsTarget

\* is_target_window called once on a chosen title and keyword list.
SpecClassify == InitClassify /\ [][NextClassify]_vars

\* ------------------------------- both predicates, with any keyword table

\* Longest text put before and after the core of a title.
MaxPadLen == 1

\* Texts put around the core of a title: "", "x", "xx", ...
Pads == { [ i \in 1..n |-> "x" ] : n \in 0..MaxPadLen }

\* Cores of the titles: empty, the two shell titles, a shell title in another
\* case, the ignored application in two spellings, an ordinary title.
TitleCores ==
  { << >>, ProgramManager, Desktop,
    << "d", "e", "s", "k", "t", "o", "p" >>,
    << "W", "h", "a", "t", "s", "A", "p", "p" >>,
    << "W", "H", "A", "T", "S", "A", "P", "P" >>,
    << "N", "o", "t", "e", "p", "a", "d" >> }

\* Titles given to the two predicates.
LookupTitles ==
  { pre \o core \o post : pre \in Pads, core \in TitleCores, post \in Pads }

\* Class names given to should_skip_window: the taskbar class, the same
\* inside a longer name, and the same in small letters.
LookupClassNames ==
  { Shell_TrayWnd, << "x" >> \o Shell_TrayWnd \o << "x" >>,
    << "s", "h", "e", "l", "l", "_", "t", "r", "a", "y", "w", "n", "d" >> }

\* Keywords given to the two predicates.
LookupKeywords ==
  { << "W", "h", "a", "t", "s", "A", "p", "p" >>,
    << "w", "h", "a", "t", "s", "a", "p", "p" >>,
    << "x" >> }

\* Keyword lists: none, one or two keywords.
LookupKeywordLists ==
  { << >> } \cup { << k >> : k \in LookupKeywords }
            \cup { << k1, k2 >> : k1 \in LookupKeywords, k2 \in LookupKeywords }

\* Lists a table may have been built from, besides the list passed.
OtherTableLists ==
  { << >>, << << "W", "h", "a", "t", "s", "A", "p", "p" >> >>, << << "x" >> >> }

\* A window, a keyword list and a table are chosen: the table is built from
\* the list passed or from another list. Nothing has been called yet.
InitLookup ==
  /\ now = 0
  /\ visible = Hwnds
  /\ foreground = NullHwnd
  /\ window_cache = WindowCacheNew(0)
  /\ last_active_window = << >>
  /\ pc = "running"
  /\ call = [ n |-> 0, at |-> 0, elapsed |-> 0, enumerated |-> FALSE,
              result |-> "Ok", value |-> << >> ]
  /\ tick = IdleTick(0, NullHwnd, FALSE)
  /\ \E t \in LookupTitles, c \in LookupClassNames, K \in LookupKeywordLists :
       \E F \in {K} \cup OtherTableLists :
         probe = [ title |-> t, class_name |-> c, keywords |-> K,
                   table_from |-> F, is_target |-> "none",
                   should_skip |-> "none" ]

\* The WindowInfo of the chosen window.
ProbeWindow ==
  [ hwnd |-> 1, title |-> probe.title, class_name |-> probe.class_name ]

\* is_target_window is called with the list and the table.
LookupIsTarget ==
  /\ probe.is_target = "none"
  /\ probe' = [ probe EXCEPT !.is_target =
                  IsTargetWindow(ProbeWindow, probe.keywords,
                                 BuildKeywordCache(probe.table_from)) ]
  /\ UNCHANGED << now, visible, foreground, window_cache, last_active_window,
                  pc, call, tick >>

\* should_skip_window is called with the list and the table.
LookupShouldSkip ==
  /\ probe.should_skip = "none"
  /\ probe' = [ probe EXCEPT !.should_skip =
                  ShouldSkipWindow(ProbeWindow, probe.keywords,
                                   BuildKeywordCache(probe.table_from)) ]
  /\ UNCHANGED << now, visible, foreground, window_cache, last_active_window,
                  pc, call, tick >>

NextLookup == LookupIsTarget \/ LookupShouldSkip

\* The two predicates called on a chosen window, keyword list and table.
SpecLookup == InitLookup /\ [][NextLookup]_vars

\* ----------------------------------------------------------- the cache

\* C1: a get_windows call enumerates exactly when more than 50 ms have
\* passed since last_update. A call that does not enumerate returns Ok with
\* the stored snapshot, leaves the cache as it was, and so returns what the
\* call before it returned; a call that enumerates with success returns and
\* stores the windows of that enumeration.
C1_CacheHitMissRule ==
  [][ call'.n # call.n =>
        /\ call'.enumerated <=> (now - window_cache.last_update > 50)
        /\ ~call'.enumerated =>
             /\ call'.result = "Ok"
             /\ call'.value = window_cache.windows
             /\ window_cache' = window_cache
             /\ (call.n >= 1 /\ call.result = "Ok") => call'.value = call.value
        /\ (call'.enumerated /\ call'.result = "Ok") =>
             /\ call'.value = GetAllWindowsUncached(visible)
             /\ window_cache'.windows = call'.value
    ]_vars

\* A second or later call made exactly 50 ms after last_update was served
\* from the cache although the desktop had changed since.
C1_Witness ==
  /\ call.n >= 2
  /\ ~call.enumerated
  /\ call.elapsed = 50
  /\ call.value # GetAllWindowsUncached(visible)

\* C2: the first get_windows call on a new cache enumerates, however soon
\* after WindowCache::new it is made.
C2_FirstCallMisses == call.n = 1 => call.enumerated

\* The first call was made at the very clock value of construction.
C2_Witness == call.n = 1 /\ call.at = 0 /\ call.enumerated

\* ------------------------------------------------------------ the loop

\* A snapshot has been stored by an earlier successful enumeration.
FirstSnapshotObtained == window_cache.last_update >= 0

\* C3: when the enumeration fails on an iteration after a first snapshot was
\* obtained, the iteration classifies nothing and minimizes nothing, and the
\* monitor keeps running.
C3_EnumerationErrorContinues ==
  (tick.enum_failed /\ FirstSnapshotObtained) =>
     /\ ~tick.classified
     /\ tick.attempted = << >>
     /\ pc = "running"

\* The records of a snapshot with handle h.
RecordsOf(snapshot, h) ==
  { snapshot[i] : i \in { k \in 1..Len(snapshot) : snapshot[k].hwnd = h } }

\* C4: on an iteration whose focused window is a target, no handle passed to
\* minimize_window is the focused handle, none belongs to a window for which
\* is_target_window is true, none to a window for which should_skip_window
\* is true.
C4_ExclusionSafety ==
  tick.target =>
    \A k \in 1..Len(tick.attempted) :
      /\ tick.attempted[k] # tick.current
      /\ \A w \in RecordsOf(tick.snapshot, tick.attempted[k]) :
           /\ IsTargetWindow(w, target_keywords, keyword_cache) = "false"
           /\ ShouldSkipWindow(w, ignored_keywords, ignored_cache) = "false"
      /\ tick.attempted[k] \notin {1, 2, 4, 5, 6}

\* The target was focused while the snapshot held a window that is both a
\* target and ignored (5), an ignored one (2) and a shell one (4), and
\* windows were minimized.
C4_Witness ==
  /\ tick.target
  /\ tick.current = 1
  /\ {2, 4, 5} \subseteq { tick.snapshot[i].hwnd : i \in 1..Len(tick.snapshot) }
  /\ Len(tick.attempted) > 0

\* C5: on a focus-change iteration whose focused window is in the snapshot
\* and is a target, every record with another handle, not a target and not
\* to be skipped, is passed to minimize_window exactly once; with the windows
\* Trae, WhatsApp, Notepad, Program Manager and the ignored target in the
\* snapshot and the focus on Trae, exactly Notepad is minimized.
C5_MinimizeSetComplete ==
  (tick.changed /\ tick.found /\ tick.target) =>
    /\ \A i \in 1..Len(tick.snapshot) :
         LET w == tick.snapshot[i] IN
         ( /\ w.hwnd # tick.current
           /\ IsTargetWindow(w, target_keywords, keyword_cache) = "false"
           /\ ShouldSkipWindow(w, ignored_keywords, ignored_cache) = "false" )
         => Cardinality({ k \in 1..Len(tick.attempted) :
                            tick.attempted[k] = w.hwnd }) = 1
    /\ ( /\ tick.current = 1
         /\ [ i \in 1..Len(tick.snapshot) |-> tick.snapshot[i].hwnd ]
              = << 1, 2, 3, 4, 5 >> )
       => tick.attempted = << 3 >>

\* The target was focused with both ordinary windows (3 and 8) in the
\* snapshot, and both were minimized.
C5_Witness ==
  /\ tick.changed /\ tick.found /\ tick.target
  /\ tick.current = 1
  /\ tick.attempted = << 3, 8 >>

\* C6: an iteration that reads the recorded focused handle again calls
\* neither get_windows nor the classifier nor minimize_window, and leaves
\* last_active_window and the cache as they were.
C6_FocusUnchangedNoOp ==
  [][ (tick'.n # tick.n /\ last_active_window = << foreground >>) =>
        /\ call' = call
        /\ window_cache' = window_cache
        /\ last_active_window' = last_active_window
        /\ ~tick'.get_windows
        /\ ~tick'.classified
        /\ tick'.attempted = << >>
        /\ pc' = pc
    ]_vars

\* A second or later iteration found the focus where the one before had
\* recorded it, on a target window.
C6_Witness ==
  /\ tick.n >= 2
  /\ ~tick.changed
  /\ tick.current = 1
  /\ last_active_window = << 1 >>

\* C7: on a focus-change iteration whose snapshot has no record with the
\* focused handle, the new handle is recorded, nothing is classified,
\* nothing is minimized, and the monitor keeps running.
C7_FocusedWindowMissing ==
  ( /\ tick.changed
    /\ tick.get_windows
    /\ ~tick.enum_failed
    /\ \A i \in 1..Len(tick.snapshot) : tick.snapshot[i].hwnd # tick.current )
  => /\ last_active_window = << tick.current >>
     /\ ~tick.classified
     /\ tick.attempted = << >>
     /\ tick.errors = 0
     /\ pc = "running"

\* The focus went to a child window (7) that the snapshot, which is not
\* empty, does not hold.
C7_Witness ==
  /\ tick.changed
  /\ tick.get_windows
  /\ ~tick.enum_failed
  /\ tick.current = 7
  /\ Len(tick.snapshot) > 0
  /\ last_active_window = << 7 >>

\* C8: on an iteration that minimizes, every eligible window of the snapshot
\* is passed to minimize_window whichever of the OS calls fail, and the
\* monitor keeps running.
C8_PartialFailureTolerance ==
  tick.target =>
    /\ \A i \in 1..Len(tick.snapshot) :
         LET w == tick.snapshot[i] IN
         ( /\ w.hwnd # tick.current
           /\ IsTargetWindow(w, target_keywords, keyword_cache) = "false"
           /\ ShouldSkipWindow(w, ignored_keywords, ignored_cache) = "false" )
         => \E k \in 1..Len(tick.attempted) : tick.attempted[k] = w.hwnd
    /\ pc = "running"

\* The OS call failed on the first of two eligible windows and the second
\* was attempted all the same.
C8_Witness ==
  /\ tick.target
  /\ Len(tick.attempted) = 2
  /\ tick.attempted[1] \in tick.os_failed
  /\ tick.attempted[2] \notin tick.os_failed

\* C9: a minimize call that fails at the OS level is reported at the call
\* site (the Err branch) and is not counted in minimized_count.
C9_FailureNotCounted ==
  tick.target =>
    /\ tick.errors = Cardinality(tick.os_failed)
    /\ tick.minimized_count = Len(tick.attempted) - Cardinality(tick.os_failed)

\* ------------------------------------------------------- the classifier

\* The characters that are the same letter as c in another case, c included.
CaseClass(c) ==
  IF c \in {"SIGMA", "sigma"} THEN {"SIGMA", "sigma"}
  ELSE IF \E i \in 1..Len(UpperChars) : c \in {UpperChars[i], LowerChars[i]}
    THEN LET i == CHOOSE i \in 1..Len(UpperChars) :
                    c \in {UpperChars[i], LowerChars[i]}
         IN {UpperChars[i], LowerChars[i]}
  ELSE {c}

\* The texts that differ from s only in the case of letters.
CaseVariants(s) ==
  { u \in [ 1..Len(s) -> UNION { CaseClass(s[i]) : i \in 1..Len(s) } ] :
      \A i \in 1..Len(s) : u[i] \in CaseClass(s[i]) }

\* is_target_window on title T with list K and the table built from K.
IsTargetOf(T, K) ==
  IsTargetWindow([ hwnd |-> 1, title |-> T, class_name |-> << >> ], K,
                 BuildKeywordCache(K))

\* C10: is_target_window with the table built from K is true exactly when
\* the lowercase of some keyword of K is a substring of the lowercase of the
\* title; it is false for the empty list; and changing the case of letters
\* of the title or of a keyword does not change the result.
C10_IsTargetCaseInsensitive ==
  probe.is_target # "none" =>
    /\ probe.is_target \in {"true", "false"}
    /\ (probe.is_target = "true") <=>
         \E i \in 1..Len(probe.keywords) :
            Contains(ToLowercase(probe.title), ToLowercase(probe.keywords[i]))
    /\ probe.keywords = << >> => probe.is_target = "false"
    /\ \A T2 \in CaseVariants(probe.title) :
         IsTargetOf(T2, probe.keywords) = probe.is_target
    /\ \A i \in 1..Len(probe.keywords) :
         \A k2 \in CaseVariants(probe.keywords[i]) :
            IsTargetOf(probe.title, [ probe.keywords EXCEPT ![i] = k2 ])
              = probe.is_target

\* One of the four tests of should_skip_window that need no keyword holds
\* for the chosen window.
HardSkip ==
  \/ probe.title = << >>
  \/ Contains(probe.title, ProgramManager)
  \/ Contains(probe.title, Desktop)
  \/ Contains(probe.class_name, Shell_TrayWnd)

\* The lowercase of keyword i of the list is a substring of the lowercase of
\* the chosen title.
KeywordMatches(i) ==
  Contains(ToLowercase(probe.title), ToLowercase(probe.keywords[i]))

\* The positions of the list whose keyword is not in the table.
MissingAt ==
  { i \in 1..Len(probe.keywords) : probe.keywords[i] \notin Range(probe.table_from) }

\* C11: with every keyword of the list in the table, should_skip_window is
\* true exactly when the title is empty, or contains "Program Manager" or
\* "Desktop", or the class name contains "Shell_TrayWnd", or the lowercase
\* title contains the lowercase of some ignored keyword; the four fixed tests
\* give true for every list, the empty one included.
C11_ShouldSkipRule ==
  probe.should_skip # "none" =>
    /\ MissingAt = {} =>
         /\ probe.should_skip \in {"true", "false"}
         /\ (probe.should_skip = "true") <=>
              (HardSkip \/ \E i \in 1..Len(probe.keywords) : KeywordMatches(i))
    /\ HardSkip => probe.should_skip = "true"

\* should_skip_window was true for a title that contains "Desktop" with the
\* empty keyword list.
C11_Witness ==
  /\ probe.should_skip = "true"
  /\ probe.keywords = << >>
  /\ Contains(probe.title, Desktop)
  /\ ~Contains(probe.class_name, Shell_TrayWnd)

\* C12, as claimed: a call of is_target_window or should_skip_window with a
\* list that holds a keyword missing from the table aborts; it returns no
\* boolean.
C12_MissingKeywordAborts ==
  MissingAt # {} =>
    /\ probe.is_target \in {"none", "panic"}
    /\ probe.should_skip \in {"none", "panic"}

\* Some keyword before the first missing one matches the title.
MatchBeforeMissing ==
  \E i \in 1..Len(probe.keywords) :
     /\ KeywordMatches(i)
     /\ \A m \in MissingAt : i < m

\* C12, amended: with a keyword of the list missing from the table, neither
\* predicate ever returns false. is_target_window returns true when a keyword
\* before the first missing one matches the title, and aborts otherwise;
\* should_skip_window returns true when one of its four fixed tests holds or
\* a keyword before the first missing one matches, and aborts otherwise.
C12_MissingKeywordNeverNonMatch ==
  MissingAt # {} =>
    /\ probe.is_target # "none" =>
         /\ probe.is_target # "false"
         /\ (probe.is_target = "true") <=> MatchBeforeMissing
    /\ probe.should_skip # "none" =>
         /\ probe.should_skip # "false"
         /\ (probe.should_skip = "true") <=> (HardSkip \/ MatchBeforeMissing)

\* With a keyword missing from the table and matching nothing before it,
\* is_target_window aborted, and should_skip_window returned true on a fixed
\* test.
C12_Witness ==
  /\ MissingAt # {}
  /\ probe.is_target = "panic"
  /\ probe.should_skip = "true"

\* -------------------------------------------------- the loop, continued

\* A record of the snapshot is eligible: another handle than the focused
\* one, not a target, not to be skipped.
Eligible(w, current_active) ==
  /\ w.hwnd # current_active
  /\ IsTargetWindow(w, target_keywords, keyword_cache) = "false"
  /\ ShouldSkipWindow(w, ignored_keywords, ignored_cache) = "false"

\* C13: an iteration calls minimize_window only if the handle it read
\* differs from the recorded one, the snapshot it got holds a record with
\* that handle, and is_target_window is true for the record; when the record
\* is found and is not a target, nothing is minimized.
C13_ActuationOnlyOnTargetEdge ==
  [][ tick'.n # tick.n =>
        /\ tick'.attempted # << >> =>
             /\ last_active_window # << foreground >>
             /\ call'.n # call.n
             /\ call'.result = "Ok"
             /\ RecordsOf(call'.value, foreground) # {}
             /\ \A w \in RecordsOf(call'.value, foreground) :
                  IsTargetWindow(w, target_keywords, keyword_cache) = "true"
        /\ ( /\ last_active_window # << foreground >>
             /\ call'.result = "Ok"
             /\ \E w \in RecordsOf(call'.value, foreground) :
                  IsTargetWindow(w, target_keywords, keyword_cache) = "false" )
           => tick'.attempted = << >>
    ]_vars

\* After a first iteration, the focus moved to the target and windows were
\* minimized.
C13_Witness ==
  /\ tick.n >= 2
  /\ tick.changed
  /\ tick.current = 1
  /\ tick.attempted # << >>

\* C14: last_active_window starts as None; an iteration leaves it equal to
\* the handle it read, writing it only when the handle differs from the
\* recorded one, and takes exactly those iterations for focus changes, the
\* first one always; nothing else writes it.
C14_FocusStateTracking ==
  /\ last_active_window = << >>
  /\ [][ /\ tick'.n # tick.n =>
              /\ last_active_window' = << foreground >>
              /\ tick'.current = foreground
              /\ tick'.changed <=> (last_active_window # << foreground >>)
              /\ ~tick'.changed => last_active_window' = last_active_window
              /\ tick.n = 0 => tick'.changed
         /\ tick'.n = tick.n => last_active_window' = last_active_window
       ]_vars

\* The first iteration read the null handle and recorded it as a change.
C14_Witness ==
  /\ tick.n = 1
  /\ tick.changed
  /\ tick.current = NullHwnd
  /\ last_active_window = << NullHwnd >>

\* C15: when the snapshot holds the focused window and its title matches a
\* target keyword, every eligible window is minimized, also when
\* should_skip_window is true for the focused window; and no window that is
\* both a target and to be skipped is ever minimized.
C15_SkipDoesNotAffectTrigger ==
  /\ ( /\ tick.changed
       /\ tick.get_windows
       /\ ~tick.enum_failed
       /\ \E w \in RecordsOf(tick.snapshot, tick.current) :
            IsTargetWindow(w, target_keywords, keyword_cache) = "true" )
     => /\ tick.target
        /\ \A i \in 1..Len(tick.snapshot) :
             Eligible(tick.snapshot[i], tick.current)
               => \E k \in 1..Len(tick.attempted) :
                     tick.attempted[k] = tick.snapshot[i].hwnd
  /\ \A k \in 1..Len(tick.attempted) :
       \A w \in RecordsOf(tick.snapshot, tick.attempted[k]) :
          ~( /\ IsTargetWindow(w, target_keywords, keyword_cache) = "true"
             /\ ShouldSkipWindow(w, ignored_keywords, ignored_cache) = "true" )

\* The focus was on the window that is a target and ignored (5), and windows
\* were minimized.
C15_Witness ==
  /\ tick.current = 5
  /\ \E w \in RecordsOf(tick.snapshot, 5) :
       /\ IsTargetWindow(w, target_keywords, keyword_cache) = "true"
       /\ ShouldSkipWindow(w, ignored_keywords, ignored_cache) = "true"
  /\ tick.attempted # << >>

\* ------------------------------------------------- snapshots, continued

\* A record tells of a window without parent, with its own, non-empty title.
WellFormedRecord(w) ==
  /\ w.hwnd \in Hwnds
  /\ ~OsWindows[w.hwnd].has_parent
  /\ w.title = OsWindows[w.hwnd].title
  /\ Len(w.title) > 0

\* C16: every record of every snapshot get_windows returns, and of every
\* snapshot the cache stores, is of a window without parent and with a
\* non-empty title, and when the snapshot is enumerated each of its windows
\* is visible; a window with a zero-length title is in no snapshot.
C16_SnapshotContent ==
  /\ [](\A i \in 1..Len(window_cache.windows) :
          WellFormedRecord(window_cache.windows[i]))
  /\ [](\A i \in 1..Len(call.value) : WellFormedRecord(call.value[i]))
  /\ [][ (call'.n # call.n /\ call'.enumerated /\ call'.result = "Ok") =>
           /\ window_cache'.windows = call'.value
           /\ \A i \in 1..Len(call'.value) : call'.value[i].hwnd \in visible
           /\ \A h \in visible :
                (~OsWindows[h].has_parent /\ Len(OsWindows[h].title) > 0)
                  => RecordsOf(call'.value, h) # {}
       ]_vars

\* An enumeration met a visible window without title (6) and a visible child
\* window (7) and a transient window (8), and kept the last one only.
C16_Witness ==
  /\ call.enumerated
  /\ call.result = "Ok"
  /\ {6, 7, 8} \subseteq visible
  /\ RecordsOf(call.value, 8) # {}
  /\ RecordsOf(window_cache.windows, 6) = {}
  /\ RecordsOf(window_cache.windows, 7) = {}

\* C17: the tables of monitor_windows hold every keyword of the lists
\* passed with them to is_target_window and should_skip_window, so that no
\* lookup of the loop fails: the loop never panics.
C17_LoopLookupsSucceed ==
  /\ Range(target_keywords) \subseteq DOMAIN keyword_cache
  /\ Range(ignored_keywords) \subseteq DOMAIN ignored_cache
  /\ pc # "panicked"
  /\ \A i \in 1..Len(tick.snapshot) :
       /\ IsTargetWindow(tick.snapshot[i], target_keywords, keyword_cache)
            # "panic"
       /\ ShouldSkipWindow(tick.snapshot[i], ignored_keywords, ignored_cache)
            # "panic"

\* The third iteration classified the focused window and filtered the
\* snapshot with both tables, and the loop goes on.
C17_Witness ==
  /\ tick.n = MaxTicks
  /\ tick.classified
  /\ tick.target
  /\ Len(tick.snapshot) >= 5
  /\ pc = "running"

\* C18: every get_windows call of the loop enumerates: the first finds the
\* backdated cache, every later one comes a sleep after the one before, which
\* is longer than cache_duration; so the snapshot an iteration classifies
\* is the enumeration of the windows of that iteration.
C18_LoopNeverServesCache ==
  [][ tick'.n # tick.n =>
        /\ last_active_window # << foreground >> =>
             /\ call'.n = call.n + 1
             /\ call'.enumerated
             /\ call'.elapsed > cache_duration
             /\ call.n >= 1 => call'.at >= call.at + PollIntervalMs
             /\ call'.result = "Ok" =>
                  /\ tick'.snapshot = GetAllWindowsUncached(visible)
                  /\ window_cache'.windows = GetAllWindowsUncached(visible)
        /\ last_active_window = << foreground >> => call' = call
    ]_vars

\* A second call of the loop came exactly one sleep after the first and
\* enumerated.
C18_Witness ==
  /\ call.n >= 2
  /\ call.enumerated
  /\ call.result = "Ok"
  /\ call.elapsed = PollIntervalMs
  /\ tick.get_windows

\* C19: a get_windows call whose enumeration fails returns the error and
\* leaves windows and last_update as they were; the call after it enumerates
\* again; and windows is only ever replaced by the result of a successful
\* enumeration.
C19_CacheUnchangedOnFailure ==
  [][ /\ (call'.n # call.n /\ call'.result = "Err") =>
           /\ call'.enumerated
           /\ window_cache' = window_cache
      /\ (call'.n # call.n /\ call.n >= 1 /\ call.result = "Err") =>
           call'.enumerated
      /\ window_cache'.windows # window_cache.windows =>
           /\ call'.n # call.n
           /\ call'.enumerated
           /\ call'.result = "Ok"
           /\ window_cache'.windows = GetAllWindowsUncached(visible)
      /\ window_cache'.last_update # window_cache.last_update =>
           /\ call'.n # call.n
           /\ call'.enumerated
           /\ call'.result = "Ok"
    ]_vars

\* A call failed after the cache had stored a snapshot, which it still
\* holds.
C19_Witness ==
  /\ call.n >= 2
  /\ call.result = "Err"
  /\ call.enumerated
  /\ window_cache.windows # << >>

====
